---- MODULE Spec2Model ----
(***************************************************************************)
(* Model of docker/extractor_plot_base_cyverse/extractor_base.py: the      *)
(* plot-level trait extraction stage (load_image_files, load_metadata,     *)
(* process_files, write_csv_file, _get_open_backoff, update_betydb).       *)
(*                                                                         *)
(* Delays are integers in tenths of a second, random draws are integers in *)
(* hundredths (u = draw / 100).  A CSV file is the sequence of its lines.  *)
(* Python 3 semantics are used (true division, insertion-ordered dict).    *)
(***************************************************************************)
EXTENDS Integers, Sequences, FiniteSets, TLC

\* ------------------------------------------------------------------------
\* Bounds of the model
\* ------------------------------------------------------------------------
NumProcs == 2
MaxCalls == 3
MaxBackoffCalls == 4
MaxFiles == 2

\* longest extractor name given to init_extraction
MaxNameLen == 4

\* longest list of metadata files given to load_metadata
MaxMetaFiles == 3

\* largest previous delay given to _get_open_backoff, in tenths of a second
MaxPrev == 400

\* ------------------------------------------------------------------------
\* Program constants
\* ------------------------------------------------------------------------
MAX_CSV_FILE_OPEN_TRIES == 10
MAX_FILE_OPEN_SLEEP_SEC == 30

\* MAX_FILE_OPEN_SLEEP_SEC in tenths of a second
MaxSleepTenths == MAX_FILE_OPEN_SLEEP_SEC * 10

\* backoff_secs = None
NoDelay == -1

\* random.random() in hundredths: draws 0 .. 99 stand for 0.00 .. 0.99
Draws == 0 .. 99

\* draws used by the writers' retry loops (the file contents do not depend
\* on the length of a sleep)
DrawSamples == {0, 99}

Procs == 1 .. NumProcs

\* A CSV line is the sequence of its cells.  The header arguments of
\* write_csv_file: a CSV header, or an empty one (None or "")
NoLine == <<>>
HeaderLine == <<"site", "value">>
HeaderArgs == {HeaderLine, NoLine}

\* the data line of the n-th call of write_csv_file
DataLine(n) == <<"plot", ToString(n)>>

Max2(a, b) == IF a >= b THEN a ELSE b

\* np.nan among the integer coordinates of the model
NaN == -1000

\* image_get_geobounds: (min y, max y, min x, max x), all NaN for a file
\* that is not georeferenced
NoBounds == <<NaN, NaN, NaN, NaN>>
BoundsChoices == {NoBounds, <<10, 20, 30, 50>>}

\* get_epsg: no code, a code ImportFromEPSG rejects, a code it accepts
EpsgChoices == {"none", "invalid", "valid"}

\* configuration.VARIABLE_NAMES, split at the commas
FieldNameLists == {<<"f1">>, <<"f1", "f2">>}

\* HTTP status codes of the BETYdb response
StatusCodes == {200, 201, 202, 204, 404, 500}

\* arguments of process_files
GermplasmName == "B73"
PlotName == "Plot_12"
LocalTime == "2020-06-01T12:00:00"
SensorName == "canopycover"

\* Python values held in the traits table: a str or the empty list
PyStr(t) == [type |-> "str", text |-> t]
PyEmptyList == [type |-> "list", text |-> "[]"]

\* str(value) of a value of the traits table
StrOf(v) == v.text

\* ------------------------------------------------------------------------
\* _get_open_backoff
\* ------------------------------------------------------------------------
\* math.trunc(float(prev) * multiplier * 100) / 10.0, in tenths of a second:
\* prev = p/10, multiplier = u/100, so the truncated product is (p*u) \div 10
ScaledSleep(prev, u) == (prev * u) \div 10

\* (variant: a delay above the ceiling is replaced by the ceiling)
RedrawSleepCeiling(u) == MaxSleepTenths

\* max(0.1, math.trunc(multiplier * 100) / 10), in tenths of a second
RedrawSleep(u) == Max2(1, u)

\* (variant: "if not prev", which also takes a delay of 0 for None)
PrevIsFalsy(prev) == prev = NoDelay \/ prev = 0

\* line 246: "if prev is None"
PrevIsNone(prev) == prev = NoDelay

\* lines 257-261: the number of draws a call takes; RANDOM_GENERATOR is 0
\* by then (lines 249-255), so the draw is the one of random.random()
DrawsOfCall(prev) == IF PrevIsNone(prev) THEN 0 ELSE 1

\* (variant: the computed delay is never compared with the ceiling)
GetOpenBackoffNoCeiling(prev, u) ==
    IF PrevIsNone(prev) THEN 10 ELSE ScaledSleep(prev, u)

GetOpenBackoff(prev, u) ==
    IF PrevIsNone(prev)
    THEN 10
    ELSE IF ScaledSleep(prev, u) > MaxSleepTenths
         THEN RedrawSleep(u)
         ELSE ScaledSleep(prev, u)

VARIABLES
    \* --- the shared CSV file -------------------------------------------
    csvExists,      \* the file exists on disk
    csv,            \* its lines
    \* --- write_csv_file, one activation per process --------------------
    wpc,            \* position of each process inside write_csv_file
    header,         \* header argument of the running call
    data,           \* data argument of the running call (a line id)
    tries,          \* loop variable of the open loop
    backoff_secs,   \* previous backoff delay (NoDelay = None)
    csv_file,       \* TRUE when the append-mode handle is open
    st_size,        \* size read by os.fstat
    wbuf,           \* lines buffered in the file object, flushed by close
    wrote_file,     \* local flag returned by the call
    attempts,       \* open() calls made by the current or last call
    opens,          \* successful open() calls of the current or last call
    sleeps,         \* time.sleep() calls made by the current or last call
    flushed,        \* lines the current or last call added to the file
    wret,           \* outcome of the last call of each process
    ncalls,         \* calls started so far (gives each data line its id)
    allOk,          \* every call so far returned True
    allHdr,         \* every call so far had a non-empty header
    \* --- process_files ---------------------------------------------------
    rpc,                \* position inside process_files
    nfiles,             \* len(images_list)
    FIELD_NAME_LIST,    \* configured variable field names
    store_in_betydb,    \* not configuration.NEVER_WRITE_BETYDB
    create_csv_files,   \* not configuration.NEVER_WRITE_CSV
    files_done,         \* files of images_list load_image_files has handled
    onefile,            \* [bounds, epsg] of the file handled last
    imagefiles,         \* load_image_files' dict, in insertion order
    polys_built,        \* polygons built by load_image_files
    metadata,           \* TRUE when load_metadata returned a non-empty dict
    bety_traits,        \* the traits table of the run
    bety_rows,          \* pending rows
    img_idx,            \* position of the image loop in loaded_files
    calc_value,         \* result of calculate for the current image
    values,             \* the local "values": [bound, seq]
    img_failed,         \* the inner try block of the last image raised
    sidecar,            \* contents of the metadata file written by the run
    posted,             \* payloads posted to BETYdb
    resp_status,        \* status code of the response (0: no response)
    upload_result,      \* how update_betydb ended
    exit_kind,          \* how process_files ended: "return" or "raise"
    exit_at,            \* where it ended
    finished_logged,    \* "Finished processing" has been logged
    \* --- _get_open_backoff as a function -------------------------------
    bprev,          \* argument of the last call
    bdraw,          \* draw of the last call
    bres,           \* result of the last call
    bcalls,         \* number of calls made
    bndraws,        \* random draws the last call took
    RANDOM_GENERATOR,   \* the module global: "None", or "0" once set
    \* --- init_extraction and the module globals ------------------------
    ipc,                    \* "start", "ready" (initialized), "raised", "built"
    extractor_name,         \* EXTRACTOR_NAME (<<>>: None)
    sensor_name,            \* SENSOR_NAME ("": None)
    trait_name_array_value, \* the list TRAIT_NAME_ARRAY_VALUE
    trait_name_map,         \* the dict TRAIT_NAME_MAP
    traits_table,           \* the dict get_bety_traits_table returned
    \* --- load_metadata -------------------------------------------------
    mpc,            \* "start", "loop", "returned", "raised"
    md_arg,         \* the argument "files": a "list" or some "other" object
    md_files,       \* the files of the list: what reading each one gives
    md_idx,         \* files the loop has handled
    new_metadata,   \* the dict being merged
    md_warnings     \* files skipped with a warning

wvars == <<csvExists, csv, wpc, header, data, tries, backoff_secs, csv_file,
           st_size, wbuf, wrote_file, attempts, opens, sleeps, flushed, wret,
           ncalls, allOk, allHdr>>
bvars == <<bprev, bdraw, bres, bcalls, bndraws, RANDOM_GENERATOR>>
rvars == <<rpc, nfiles, FIELD_NAME_LIST, store_in_betydb, create_csv_files,
           files_done, onefile, imagefiles, polys_built, metadata, bety_traits,
           bety_rows, img_idx, calc_value, values, img_failed, sidecar, posted,
           resp_status, upload_result, exit_kind, exit_at, finished_logged>>
ivars == <<ipc, extractor_name, sensor_name, trait_name_array_value,
           trait_name_map, traits_table>>
mvars == <<mpc, md_arg, md_files, md_idx, new_metadata, md_warnings>>
xvars == <<ivars, mvars>>
vars == <<wvars, bvars, rvars, xvars>>

\* ------------------------------------------------------------------------
\* write_csv_file
\* ------------------------------------------------------------------------
\* os.fstat(csv_file.fileno()).st_size of a file holding these lines
FileSize(lines) == Len(lines)

\* (variant: the size of the file is not looked at)
NeedHeaderAnySize(size, hdr) == hdr # NoLine

\* "if os.fstat(...).st_size <= 0: if header:" - the header is written
NeedHeader(size, hdr) == size <= 0 /\ hdr # NoLine

\* (variant: the call also sleeps after its last failed attempt)
SleepsAfterEveryFailure(t) == t < MAX_CSV_FILE_OPEN_TRIES

\* "if tries < MAX_CSV_FILE_OPEN_TRIES - 1": a failed attempt is followed
\* by a backoff sleep
SleepsAfterFailure(t) == t < MAX_CSV_FILE_OPEN_TRIES - 1

\* "for tries in range(0, MAX_CSV_FILE_OPEN_TRIES)": attempt t is followed
\* by another one
LoopContinues(t) == t + 1 < MAX_CSV_FILE_OPEN_TRIES

\* the lines one uninterrupted successful call adds to a file
AppendedLines(lines, hdr, d) ==
    (IF NeedHeader(FileSize(lines), hdr) THEN <<hdr>> ELSE <<>>) \o <<d>>

WLocals(pcv) ==
    /\ wpc = [p \in Procs |-> pcv]
    /\ header = [p \in Procs |-> NoLine]
    /\ data = [p \in Procs |-> NoLine]
    /\ tries = [p \in Procs |-> 0]
    /\ backoff_secs = [p \in Procs |-> NoDelay]
    /\ csv_file = [p \in Procs |-> FALSE]
    /\ st_size = [p \in Procs |-> 0]
    /\ wbuf = [p \in Procs |-> <<>>]
    /\ wrote_file = [p \in Procs |-> FALSE]
    /\ attempts = [p \in Procs |-> 0]
    /\ opens = [p \in Procs |-> 0]
    /\ sleeps = [p \in Procs |-> 0]
    /\ flushed = [p \in Procs |-> 0]
    /\ wret = [p \in Procs |-> "none"]
    /\ ncalls = 0
    /\ allOk = TRUE
    /\ allHdr = TRUE

\* the file is nonexistent or empty and no call is running
WInit ==
    /\ csvExists \in BOOLEAN
    /\ csv = <<>>
    /\ WLocals("idle")

\* no writer exists (specifications about other functions)
WOff ==
    /\ csvExists = FALSE
    /\ csv = <<>>
    /\ WLocals("off")

\* the locals of a call are gone when it returns
DropLocals(p) ==
    /\ header' = [header EXCEPT ![p] = NoLine]
    /\ data' = [data EXCEPT ![p] = NoLine]
    /\ tries' = [tries EXCEPT ![p] = 0]
    /\ backoff_secs' = [backoff_secs EXCEPT ![p] = NoDelay]
    /\ csv_file' = [csv_file EXCEPT ![p] = FALSE]
    /\ st_size' = [st_size EXCEPT ![p] = 0]
    /\ wbuf' = [wbuf EXCEPT ![p] = <<>>]
    /\ wrote_file' = [wrote_file EXCEPT ![p] = FALSE]

\* lines 467-471: a call with a filename and data enters the open loop
WriteCall(p) ==
    /\ wpc[p] = "idle"
    /\ ncalls < MaxCalls
    /\ \E h \in HeaderArgs :
          /\ header' = [header EXCEPT ![p] = h]
          /\ allHdr' = (allHdr /\ h # NoLine)
    /\ ncalls' = ncalls + 1
    /\ data' = [data EXCEPT ![p] = DataLine(ncalls + 1)]
    /\ wpc' = [wpc EXCEPT ![p] = "open"]
    /\ tries' = [tries EXCEPT ![p] = 0]
    /\ backoff_secs' = [backoff_secs EXCEPT ![p] = NoDelay]
    /\ csv_file' = [csv_file EXCEPT ![p] = FALSE]
    /\ attempts' = [attempts EXCEPT ![p] = 0]
    /\ opens' = [opens EXCEPT ![p] = 0]
    /\ sleeps' = [sleeps EXCEPT ![p] = 0]
    /\ flushed' = [flushed EXCEPT ![p] = 0]
    /\ wret' = [wret EXCEPT ![p] = "running"]
    /\ UNCHANGED <<csvExists, csv, st_size, wbuf, wrote_file, allOk>>

\* lines 467-468: an empty filename or empty data raises RuntimeError
WriteCallEmpty(p) ==
    /\ wpc[p] = "idle"
    /\ ncalls < MaxCalls
    /\ ncalls' = ncalls + 1
    /\ attempts' = [attempts EXCEPT ![p] = 0]
    /\ opens' = [opens EXCEPT ![p] = 0]
    /\ sleeps' = [sleeps EXCEPT ![p] = 0]
    /\ flushed' = [flushed EXCEPT ![p] = 0]
    /\ wret' = [wret EXCEPT ![p] = "raise"]
    /\ allOk' = FALSE
    /\ UNCHANGED <<csvExists, csv, wpc, header, data, tries, backoff_secs,
                   csv_file, st_size, wbuf, wrote_file, allHdr>>

\* lines 473-479: open(filename, 'a+') succeeds; the file is created when
\* it does not exist, and the loop is left
OpenOk(p) ==
    /\ wpc[p] = "open"
    /\ attempts' = [attempts EXCEPT ![p] = @ + 1]
    /\ opens' = [opens EXCEPT ![p] = @ + 1]
    /\ csv_file' = [csv_file EXCEPT ![p] = TRUE]
    /\ csvExists' = TRUE
    /\ wpc' = [wpc EXCEPT ![p] = "stat"]
    /\ UNCHANGED <<csv, header, data, tries, backoff_secs, st_size, wbuf,
                   wrote_file, sleeps, flushed, wret, ncalls, allOk, allHdr>>

\* lines 473-485: open raises; unless this was the last try the call sleeps
\* for the next backoff delay, and the loop goes on to the next try
OpenFailRetry(p, D) ==
    /\ wpc[p] = "open"
    /\ LoopContinues(tries[p])
    /\ attempts' = [attempts EXCEPT ![p] = @ + 1]
    /\ IF SleepsAfterFailure(tries[p])
       THEN /\ \E u \in D :
                  backoff_secs' = [backoff_secs EXCEPT
                                     ![p] = GetOpenBackoff(backoff_secs[p], u)]
            /\ sleeps' = [sleeps EXCEPT ![p] = @ + 1]
       ELSE UNCHANGED <<backoff_secs, sleeps>>
    /\ tries' = [tries EXCEPT ![p] = @ + 1]
    /\ UNCHANGED <<csvExists, csv, wpc, header, data, csv_file, st_size, wbuf,
                   wrote_file, opens, flushed, wret, ncalls, allOk, allHdr>>

\* lines 473-489: open raises on the last try of the loop; csv_file is
\* still None, the error is logged and the call returns False
OpenFailLast(p) ==
    /\ wpc[p] = "open"
    /\ ~LoopContinues(tries[p])
    /\ attempts' = [attempts EXCEPT ![p] = @ + 1]
    /\ IF SleepsAfterFailure(tries[p])
       THEN sleeps' = [sleeps EXCEPT ![p] = @ + 1]
       ELSE UNCHANGED sleeps
    /\ DropLocals(p)
    /\ wpc' = [wpc EXCEPT ![p] = "idle"]
    /\ wret' = [wret EXCEPT ![p] = "False"]
    /\ allOk' = FALSE
    /\ UNCHANGED <<csvExists, csv, opens, flushed, ncalls, allHdr>>

\* line 494: os.fstat reads the current size of the shared file
StatSize(p) ==
    /\ wpc[p] = "stat"
    /\ st_size' = [st_size EXCEPT ![p] = FileSize(csv)]
    /\ wpc' = [wpc EXCEPT ![p] = "header"]
    /\ UNCHANGED <<csvExists, csv, header, data, tries, backoff_secs, csv_file,
                   wbuf, wrote_file, attempts, opens, sleeps, flushed, wret,
                   ncalls, allOk, allHdr>>

\* lines 494-496: the header line goes to the file object's buffer when the
\* file was empty and a header was given
WriteHeader(p) ==
    /\ wpc[p] = "header"
    /\ wbuf' = [wbuf EXCEPT ![p] =
                  IF NeedHeader(st_size[p], header[p])
                  THEN Append(@, header[p]) ELSE @]
    /\ wpc' = [wpc EXCEPT ![p] = "data"]
    /\ UNCHANGED <<csvExists, csv, header, data, tries, backoff_secs, csv_file,
                   st_size, wrote_file, attempts, opens, sleeps, flushed, wret,
                   ncalls, allOk, allHdr>>

\* lines 499-501: the data line goes to the buffer, wrote_file = True
WriteData(p) ==
    /\ wpc[p] = "data"
    /\ wbuf' = [wbuf EXCEPT ![p] = Append(@, data[p])]
    /\ wrote_file' = [wrote_file EXCEPT ![p] = TRUE]
    /\ wpc' = [wpc EXCEPT ![p] = "close"]
    /\ UNCHANGED <<csvExists, csv, header, data, tries, backoff_secs, csv_file,
                   st_size, attempts, opens, sleeps, flushed, wret, ncalls,
                   allOk, allHdr>>

\* lines 502-504: fstat or a write raises; the exception is logged and
\* wrote_file stays False
WriteRaises(p) ==
    /\ wpc[p] \in {"stat", "header", "data"}
    /\ wpc' = [wpc EXCEPT ![p] = "close"]
    /\ UNCHANGED <<csvExists, csv, header, data, tries, backoff_secs, csv_file,
                   st_size, wbuf, wrote_file, attempts, opens, sleeps, flushed,
                   wret, ncalls, allOk, allHdr>>

\* lines 505-509: close flushes the buffered lines to the end of the file
\* (append mode) and the call returns wrote_file
CloseFile(p) ==
    /\ wpc[p] = "close"
    /\ csv' = csv \o wbuf[p]
    /\ flushed' = [flushed EXCEPT ![p] = @ + Len(wbuf[p])]
    /\ DropLocals(p)
    /\ wpc' = [wpc EXCEPT ![p] = "idle"]
    /\ wret' = [wret EXCEPT ![p] = IF wrote_file[p] THEN "True" ELSE "False"]
    /\ allOk' = (allOk /\ wrote_file[p])
    /\ UNCHANGED <<csvExists, attempts, opens, sleeps, ncalls, allHdr>>

\* ------------------------------------------------------------------------
\* _get_open_backoff called as the retry loop calls it: first with None,
\* then with its own previous result
\* ------------------------------------------------------------------------
BInit ==
    /\ bprev = NoDelay
    /\ bdraw = 0
    /\ bres = NoDelay
    /\ bcalls = 0
    /\ bndraws = 0
    /\ RANDOM_GENERATOR = "None"

BOff == BInit

\* lines 249-255: the generator is looked up once; the finally clause then
\* stores 0 whatever the lookup gave
GeneratorAfter(prev, generator) ==
    IF PrevIsNone(prev) THEN generator ELSE "0"

\* line 483: backoff_secs = _get_open_backoff(backoff_secs)
BackoffCall ==
    /\ bcalls < MaxBackoffCalls
    /\ bprev' = bres
    /\ \E u \in Draws :
          /\ bdraw' = (IF PrevIsNone(bres) THEN 0 ELSE u)
          /\ bres' = GetOpenBackoff(bres, u)
    /\ bndraws' = DrawsOfCall(bres)
    /\ RANDOM_GENERATOR' = GeneratorAfter(bres, RANDOM_GENERATOR)
    /\ bcalls' = bcalls + 1
    /\ UNCHANGED <<wvars, rvars, xvars>>

\* line 471: a new retry loop starts with backoff_secs = None
BackoffReset ==
    /\ bcalls > 0
    /\ bprev' = NoDelay
    /\ bdraw' = 0
    /\ bres' = NoDelay
    /\ bcalls' = 0
    /\ bndraws' = 0
    /\ UNCHANGED RANDOM_GENERATOR
    /\ UNCHANGED <<wvars, rvars, xvars>>

\* lines 232-268: one call with a previous delay that is not None
BackoffCallWith ==
    /\ bcalls = 0
    /\ \E p \in 0 .. MaxPrev, u \in Draws :
          /\ bprev' = p
          /\ bdraw' = u
          /\ bres' = GetOpenBackoff(p, u)
          /\ bndraws' = DrawsOfCall(p)
          /\ RANDOM_GENERATOR' = GeneratorAfter(p, RANDOM_GENERATOR)
    /\ bcalls' = 1
    /\ UNCHANGED <<wvars, rvars, xvars>>

\* ------------------------------------------------------------------------
\* The traits table (get_bety_fields, get_default_trait, ...)
\* ------------------------------------------------------------------------
BetyFixedFields ==
    <<"local_datetime", "access_level", "species", "site", "citation_author",
      "citation_year", "citation_title", "method">>

GetBetyFields(fields) == BetyFixedFields \o fields

\* TRAIT_NAME_ARRAY_VALUE once init_extraction has stored the sensor name
\* in its first element
TRAIT_NAME_ARRAY_VALUE == <<SensorName>>

\* TRAIT_NAME_MAP once init_extraction has stored the configured citation
TRAIT_NAME_MAP ==
    [access_level |-> "2", species |-> "Unknown",
     citation_author |-> "Author", citation_year |-> "2019",
     citation_title |-> "Title", method |-> ""]

SeqRange(q) == {q[i] : i \in DOMAIN q}

\* the empty dict
NoMap == [k \in {} |-> 0]

\* get_default_trait, given the two globals it reads
DefaultTrait(trait_name, array_value, map) ==
    IF trait_name \in SeqRange(array_value)
    THEN PyEmptyList
    ELSE IF trait_name \in DOMAIN map
         THEN PyStr(map[trait_name])
         ELSE PyStr("")

GetDefaultTrait(trait_name) ==
    DefaultTrait(trait_name, TRAIT_NAME_ARRAY_VALUE, TRAIT_NAME_MAP)

GetBetyTraitsTable(fields) ==
    [f \in SeqRange(GetBetyFields(fields)) |-> GetDefaultTrait(f)]

GenerateTraitsList(fields, traits) ==
    [i \in DOMAIN fields |->
        IF fields[i] \in DOMAIN traits THEN traits[fields[i]]
        ELSE GetDefaultTrait(fields[i])]

\* ','.join(map(str, trait_list)): the cells of the line
CsvLine(trait_list) == [i \in DOMAIN trait_list |-> StrOf(trait_list[i])]

\* ------------------------------------------------------------------------
\* init_extraction
\* ------------------------------------------------------------------------
\* characters of an extractor name; str.lower maps "S" to "s"
Whitespace == {" ", "\t"}
NameChars == {"S", "i", "t", "e"} \cup Whitespace

\* the names given to init_extraction, the empty one included
Names == UNION {[1 .. n -> NameChars] : n \in 0 .. MaxNameLen}

\* name.strip()
RECURSIVE LStrip(_)
LStrip(name) ==
    IF name # <<>> /\ Head(name) \in Whitespace THEN LStrip(Tail(name)) ELSE name

RECURSIVE RStrip(_)
RStrip(name) ==
    IF name # <<>> /\ name[Len(name)] \in Whitespace
    THEN RStrip(SubSeq(name, 1, Len(name) - 1))
    ELSE name

Strip(name) == RStrip(LStrip(name))

\* .replace(' ', '_').replace('\t', '_')...
ReplaceWhitespace(name) ==
    [i \in DOMAIN name |-> IF name[i] \in Whitespace THEN "_" ELSE name[i]]

\* str.lower
Lower(name) == [i \in DOMAIN name |-> IF name[i] = "S" THEN "s" ELSE name[i]]

\* the characters as one string
RECURSIVE Join(_)
Join(name) == IF name = <<>> THEN "" ELSE Head(name) \o Join(Tail(name))

\* lines 86-88: the sensor name derived from the extractor name
SensorNameOf(name) == Join(Lower(ReplaceWhitespace(Strip(name))))

\* configuration.CITATION_AUTHOR, CITATION_TITLE, CITATION_YEAR
CitationAuthor == "Author"
CitationTitle == "Title"
CitationYear == "2019"

\* the method_name argument: None or a name
MethodNames == {"", "method"}

\* lines 44-54: the globals as the module defines them
ArrayValueAtImport == <<"site">>

MapAtImport ==
    [access_level |-> "2", species |-> "Unknown",
     citation_author |-> "Unknown", citation_year |-> "Unknown",
     citation_title |-> "Unknown", method |-> ""]

\* dict[key] = value
DictSet(map, key, value) ==
    [k \in DOMAIN map \cup {key} |-> IF k = key THEN value ELSE map[k]]

ILocals ==
    /\ extractor_name = <<>>
    /\ sensor_name = ""
    /\ trait_name_array_value = ArrayValueAtImport
    /\ trait_name_map = MapAtImport
    /\ traits_table = NoMap

\* init_extraction is not the subject (specifications about other functions)
IOff == ipc = "off" /\ ILocals

\* lines 81-82: an empty name raises RuntimeError
InitExtractionInvalid ==
    /\ ipc = "start"
    /\ ipc' = "raised"
    /\ UNCHANGED <<extractor_name, sensor_name, trait_name_array_value,
                   trait_name_map, traits_table>>
    /\ UNCHANGED <<wvars, bvars, rvars, mvars>>

\* lines 84-103: the globals are set from the name, the method name and the
\* configuration
InitExtraction ==
    /\ ipc = "start"
    /\ \E name \in Names \ {<<>>}, method_name \in MethodNames,
          fields \in FieldNameLists :
          /\ extractor_name' = name
          /\ sensor_name' = SensorNameOf(name)
          /\ trait_name_array_value' =
                [trait_name_array_value EXCEPT ![1] = SensorNameOf(name)]
          /\ trait_name_map' =
                LET cited ==
                      DictSet(DictSet(DictSet(trait_name_map,
                          "citation_author", CitationAuthor),
                          "citation_title", CitationTitle),
                          "citation_year", CitationYear)
                IN  IF method_name # ""
                    THEN DictSet(cited, "method_name", method_name)
                    ELSE cited
          /\ FIELD_NAME_LIST' = fields
    /\ ipc' = "ready"
    /\ UNCHANGED traits_table
    /\ UNCHANGED <<rpc, nfiles, store_in_betydb, create_csv_files, files_done,
                   onefile, imagefiles, polys_built, metadata, bety_traits,
                   bety_rows, img_idx, calc_value, values, img_failed, sidecar,
                   posted, resp_status, upload_result, exit_kind, exit_at,
                   finished_logged>>
    /\ UNCHANGED <<wvars, bvars, mvars>>

\* lines 329-340: get_bety_traits_table, called once init_extraction is done
BuildTraitsTable ==
    /\ ipc = "ready"
    /\ traits_table' =
          [f \in SeqRange(GetBetyFields(FIELD_NAME_LIST)) |->
              DefaultTrait(f, trait_name_array_value, trait_name_map)]
    /\ ipc' = "built"
    /\ UNCHANGED <<extractor_name, sensor_name, trait_name_array_value,
                   trait_name_map>>
    /\ UNCHANGED <<wvars, bvars, rvars, mvars>>

\* ------------------------------------------------------------------------
\* load_metadata
\* ------------------------------------------------------------------------
MetaKeys == {"k1", "k2"}
MetaValues == {1, 2}

\* the JSON objects a metadata file can hold, the empty one included
MetaMaps == UNION {[ks -> MetaValues] : ks \in SUBSET MetaKeys}

\* what reading one file gives: open raises ("unreadable"), json.load raises
\* ("corrupt"), json.load returns an object (the empty object also stands
\* for the other values that are false: null, 0, "", []), or it returns
\* some "other" true value that dict.update rejects
MetaFile(kind, map) == [kind |-> kind, map |-> map]

MetaFiles ==
    {MetaFile(k, NoMap) : k \in {"unreadable", "corrupt", "other"}}
        \cup {MetaFile("object", m) : m \in MetaMaps}

MetaFileLists == UNION {[1 .. n -> MetaFiles] : n \in 0 .. MaxMetaFiles}

\* (variant: a key that is already present keeps its value)
DictUpdateKeepOld(old, new) ==
    [k \in DOMAIN old \cup DOMAIN new |->
        IF k \in DOMAIN old THEN old[k] ELSE new[k]]

\* dict.update with a dict
DictUpdate(old, new) ==
    [k \in DOMAIN old \cup DOMAIN new |->
        IF k \in DOMAIN new THEN new[k] ELSE old[k]]

\* lines 438-441 raise for this file
MetaFileRaises(f) == f.kind # "object"

\* line 440: "if file_md:"
MetaFileTrue(f) == f.map # NoMap

MLocals ==
    /\ md_idx = 0
    /\ new_metadata = NoMap
    /\ md_warnings = 0

\* load_metadata is called with a list of files or with another object
MInit ==
    /\ mpc = "start"
    /\ \/ md_arg = "list" /\ md_files \in MetaFileLists
       \/ md_arg = "other" /\ md_files = <<>>
    /\ MLocals

\* load_metadata is not the subject (specifications about other functions)
MOff ==
    /\ mpc = "off"
    /\ md_arg = "list"
    /\ md_files = <<>>
    /\ MLocals

\* lines 433-434, 449: "if files:" is false, the empty dict is returned
MetadataNoFiles ==
    /\ mpc = "start"
    /\ md_arg = "list" /\ md_files = <<>>
    /\ mpc' = "returned"
    /\ UNCHANGED <<md_arg, md_files, md_idx, new_metadata, md_warnings>>
    /\ UNCHANGED <<wvars, bvars, rvars, ivars>>

\* lines 436, 445-447: the for statement raises on an object that cannot be
\* iterated; the outer handler logs and raises RuntimeError
MetadataNotIterable ==
    /\ mpc = "start"
    /\ md_arg = "other"
    /\ mpc' = "raised"
    /\ UNCHANGED <<md_arg, md_files, md_idx, new_metadata, md_warnings>>
    /\ UNCHANGED <<wvars, bvars, rvars, ivars>>

\* lines 436-444: one iteration of the loop; an exception of open,
\* json.load or update is logged as a warning and the loop goes on
MetadataFile ==
    /\ mpc \in {"start", "loop"}
    /\ md_arg = "list"
    /\ md_idx < Len(md_files)
    /\ LET f == md_files[md_idx + 1]
       IN  IF MetaFileRaises(f)
           THEN /\ md_warnings' = md_warnings + 1
                /\ UNCHANGED new_metadata
           ELSE /\ new_metadata' =
                      IF MetaFileTrue(f) THEN DictUpdate(new_metadata, f.map)
                      ELSE new_metadata
                /\ UNCHANGED md_warnings
    /\ md_idx' = md_idx + 1
    /\ mpc' = "loop"
    /\ UNCHANGED <<md_arg, md_files>>
    /\ UNCHANGED <<wvars, bvars, rvars, ivars>>

\* lines 436, 449: the list is exhausted, new_metadata is returned
MetadataReturn ==
    /\ mpc = "loop"
    /\ md_idx = Len(md_files)
    /\ mpc' = "returned"
    /\ UNCHANGED <<md_arg, md_files, md_idx, new_metadata, md_warnings>>
    /\ UNCHANGED <<wvars, bvars, rvars, ivars>>

\* ------------------------------------------------------------------------
\* load_image_files
\* ------------------------------------------------------------------------
\* IEEE 754 "a != b": true whenever an operand is NaN
FloatNotEqual(a, b) == IF a = NaN \/ b = NaN THEN TRUE ELSE a # b

\* "if bounds[0] != np.nan"
HasBounds(bounds) == FloatNotEqual(bounds[1], NaN)

\* the ring of lines 401-406: upper left, upper right, lower right, lower
\* left, upper left again; bounds = (min y, max y, min x, max x)
BoundsPolygon(bounds) ==
    << <<bounds[3], bounds[2]>>, <<bounds[4], bounds[2]>>,
       <<bounds[4], bounds[1]>>, <<bounds[3], bounds[1]>>,
       <<bounds[3], bounds[2]>> >>

\* ------------------------------------------------------------------------
\* The result of calculate and its reconciliation (lines 571-597)
\* ------------------------------------------------------------------------
CalcKeys == {"f1", "f2", "other"}
CalcMaps == {[f1 |-> 7, f2 |-> 8, other |-> 9], [f1 |-> 8, f2 |-> 7, other |-> 9]}
CalcSeqs == {<<>>, <<7>>, <<7, 8>>, <<8, 7>>, <<7, 8, 9>>}

Calc(kind, elems, map) == [kind |-> kind, elems |-> elems, map |-> map]

\* what calculate can do: raise, or return a set, a dict, a list, a tuple
\* or anything else (a scalar).  elems holds the elements of a list or a
\* tuple and, for a scalar or a set, the object itself: [calc_value]
CalcResults ==
    {Calc("raise", <<>>, NoMap), Calc("scalar", <<7>>, NoMap)}
    \cup {Calc("set", <<q>>, NoMap) : q \in {{7}, {7, 8}}}
    \cup {Calc(k, q, NoMap) : k \in {"list", "tuple"}, q \in CalcSeqs}
    \cup {Calc("dict", <<>>, [k \in ks |-> m[k]]) :
             ks \in SUBSET CalcKeys, m \in CalcMaps}

NoCalc == Calc("none", <<>>, NoMap)

Unbound == [bound |-> FALSE, seq |-> <<>>]
Bound(q) == [bound |-> TRUE, seq |-> q]

\* (variant: a configured field the dict lacks gets a default value)
RECURSIVE DictValuesDefaulted(_, _)
DictValuesDefaulted(map, fields) ==
    IF fields = <<>> THEN <<>>
    ELSE <<IF Head(fields) \in DOMAIN map THEN map[Head(fields)] ELSE 0>>
         \o DictValuesDefaulted(map, Tail(fields))

\* lines 586-589: the values of the configured fields the dict has, in
\* configured order
RECURSIVE DictValues(_, _)
DictValues(map, fields) ==
    IF fields = <<>> THEN <<>>
    ELSE (IF Head(fields) \in DOMAIN map THEN <<map[Head(fields)]>> ELSE <<>>)
         \o DictValues(map, Tail(fields))

\* (variant: a set is not rejected and is handled like a scalar)
RaisesBeforeShapeSetAllowed(cv) == cv.kind = "raise"

\* lines 575-581: gdal or calculate raises, or the result is a set
RaisesBeforeShape(cv) == cv.kind \in {"raise", "set"}

\* lines 582-591: the local "values" after the shape of the result has been
\* looked at; a list or a tuple assigns nothing
ShapeValues(cv, fields, old) ==
    IF cv.kind = "dict" THEN Bound(DictValues(cv.map, fields))
    ELSE IF cv.kind \in {"list", "tuple"} THEN old
    ELSE Bound(cv.elems)

\* the local "values" when the inner try block is left
ValuesAfter(cv, fields, old) ==
    IF RaisesBeforeShape(cv) THEN old ELSE ShapeValues(cv, fields, old)

\* line 595: "if not len_calc_value == len_field_value" does not raise
CountOk(len_calc_value, len_field_value) == len_calc_value = len_field_value

\* lines 575-597: the inner try block raises (len of an unassigned "values"
\* raises UnboundLocalError)
ReconcileRaises(cv, fields, old) ==
    \/ RaisesBeforeShape(cv)
    \/ ~ShapeValues(cv, fields, old).bound
    \/ ~CountOk(Len(ShapeValues(cv, fields, old).seq), Len(fields))

\* lines 600-606: the traits table with the values of the image
RECURSIVE SetFieldValues(_, _, _, _)
SetFieldValues(traits, fields, vals, idx) ==
    IF idx > Len(fields) THEN traits
    ELSE SetFieldValues([traits EXCEPT ![fields[idx]] = PyStr(ToString(vals[idx]))],
                        fields, vals, idx + 1)

ImageTraits(traits, fields, vals) ==
    [SetFieldValues(traits, fields, vals, 1)
        EXCEPT !["site"] = PyStr(PlotName),
               !["local_datetime"] = PyStr(LocalTime)]

\* ------------------------------------------------------------------------
\* write_csv_file as process_files calls it (no other writer in between)
\* ------------------------------------------------------------------------
\* the file after one call: the call succeeds; or no open succeeds, or fstat
\* or the header write raises; or the data write raises after the header
\* was buffered
WriteCsvFile(lines, hdr, d) ==
    { lines \o AppendedLines(lines, hdr, d),
      lines,
      lines \o (IF NeedHeader(FileSize(lines), hdr) THEN <<hdr>> ELSE <<>>) }

\* lines 624-625: "for one_row in bety_rows: write_csv_file(...)"
RECURSIVE WriteRows(_, _, _)
WriteRows(lines, hdr, rows) ==
    IF rows = <<>> THEN {lines}
    ELSE UNION {WriteRows(l, hdr, Tail(rows)) :
                   l \in WriteCsvFile(lines, hdr, Head(rows))}

\* ------------------------------------------------------------------------
\* update_betydb
\* ------------------------------------------------------------------------
\* (variant: raise_for_status is not called, an error status falls through)
RaiseForStatusNever(status) == FALSE

\* requests.Response.raise_for_status raises for 4xx and 5xx only
RaiseForStatus(status) == 400 <= status /\ status < 600

\* line 287
IsSuccessStatus(status) == status \in {200, 201}

\* lines 287-294: the ids are returned, an exception is raised (by
\* raise_for_status, or by the lookup in a body without the ids), or the
\* function falls through to "return None"
UpdateBetydb(status, body_has_ids) ==
    IF IsSuccessStatus(status)
    THEN (IF body_has_ids THEN "ids" ELSE "raise")
    ELSE IF RaiseForStatus(status) THEN "raise" ELSE "None"

\* ------------------------------------------------------------------------
\* process_files
\* ------------------------------------------------------------------------
NoFile == [bounds |-> NoBounds, epsg |-> "none"]

RLocals ==
    /\ files_done = 0
    /\ onefile = NoFile
    /\ imagefiles = <<>>
    /\ polys_built = 0
    /\ metadata = FALSE
    /\ bety_traits = NoMap
    /\ bety_rows = <<>>
    /\ img_idx = 0
    /\ calc_value = NoCalc
    /\ values = Unbound
    /\ img_failed = FALSE
    /\ sidecar = NoCalc
    /\ posted = <<>>
    /\ resp_status = 0
    /\ upload_result = "none"
    /\ exit_kind = "running"
    /\ exit_at = "nowhere"
    /\ finished_logged = FALSE

\* process_files is called after init_extraction, with any list of images
RInit ==
    /\ rpc = "load"
    /\ nfiles \in 0 .. MaxFiles
    /\ FIELD_NAME_LIST \in FieldNameLists
    /\ store_in_betydb \in BOOLEAN
    /\ create_csv_files \in BOOLEAN
    /\ RLocals

\* no run exists (specifications about other functions)
ROff ==
    /\ rpc = "off"
    /\ nfiles = 0
    /\ FIELD_NAME_LIST = <<"f1">>
    /\ store_in_betydb = FALSE
    /\ create_csv_files = FALSE
    /\ RLocals

rconfig == <<nfiles, FIELD_NAME_LIST, store_in_betydb, create_csv_files>>

\* lines 396-420: one iteration of load_image_files' loop.  The polygon is
\* built when the bounds test passes; a missing or rejected EPSG code then
\* raises RuntimeError, which leaves process_files before its try block
LoadImageFile ==
    /\ rpc = "load"
    /\ files_done < nfiles
    /\ \E b \in BoundsChoices, e \in EpsgChoices :
          /\ onefile' = [bounds |-> b, epsg |-> e]
          /\ IF HasBounds(b)
             THEN /\ polys_built' = polys_built + 1
                  /\ IF e = "valid"
                     THEN /\ imagefiles' = Append(imagefiles,
                                  [file |-> files_done + 1,
                                   bounds |-> BoundsPolygon(b)])
                          /\ UNCHANGED <<rpc, exit_kind, exit_at>>
                     ELSE /\ rpc' = "exit"
                          /\ exit_kind' = "raise"
                          /\ exit_at' = "load_image_files"
                          /\ UNCHANGED imagefiles
             ELSE UNCHANGED <<polys_built, imagefiles, rpc, exit_kind, exit_at>>
    /\ files_done' = files_done + 1
    /\ UNCHANGED <<rconfig, metadata, bety_traits, bety_rows, img_idx,
                   calc_value, values, img_failed, sidecar, posted,
                   resp_status, upload_result, finished_logged>>
    /\ UNCHANGED <<wvars, bvars, xvars>>

\* lines 539-543: load_image_files returns; without a loaded file
\* process_files logs that and returns
ImagesLoaded ==
    /\ rpc = "load"
    /\ files_done = nfiles
    /\ IF Len(imagefiles) <= 0
       THEN rpc' = "exit" /\ exit_kind' = "return" /\ exit_at' = "no_images"
       ELSE rpc' = "metadata" /\ UNCHANGED <<exit_kind, exit_at>>
    /\ UNCHANGED <<rconfig, files_done, onefile, imagefiles, polys_built,
                   metadata, bety_traits, bety_rows, img_idx, calc_value,
                   values, img_failed, sidecar, posted, resp_status,
                   upload_result, finished_logged>>
    /\ UNCHANGED <<wvars, bvars, xvars>>

\* lines 546-568: load_metadata returns a dict (empty or not) or raises
\* RuntimeError; then the timestamp, the traits table, the species and the
\* header are set up and the try block is entered
LoadMetadata ==
    /\ rpc = "metadata"
    /\ \/ /\ metadata' \in BOOLEAN
          /\ bety_traits' = [GetBetyTraitsTable(FIELD_NAME_LIST)
                                EXCEPT !["species"] = PyStr(GermplasmName)]
          /\ bety_rows' = <<>>
          /\ img_idx' = 1
          /\ rpc' = "image"
          /\ UNCHANGED <<exit_kind, exit_at>>
       \/ /\ rpc' = "exit"
          /\ exit_kind' = "raise"
          /\ exit_at' = "load_metadata"
          /\ UNCHANGED <<metadata, bety_traits, bety_rows, img_idx>>
    /\ UNCHANGED <<rconfig, files_done, onefile, imagefiles, polys_built,
                   calc_value, values, img_failed, sidecar, posted,
                   resp_status, upload_result, finished_logged>>
    /\ UNCHANGED <<wvars, bvars, xvars>>

\* line 569: the loop over loaded_files is exhausted
ImagesDone ==
    /\ rpc = "image"
    /\ img_idx > Len(imagefiles)
    /\ rpc' = "upload"
    /\ UNCHANGED <<rconfig, files_done, onefile, imagefiles, polys_built,
                   metadata, bety_traits, bety_rows, img_idx, calc_value,
                   values, img_failed, sidecar, posted, resp_status,
                   upload_result, exit_kind, exit_at, finished_logged>>
    /\ UNCHANGED <<wvars, bvars, xvars>>

\* lines 571-615: the inner try block for one image.  When it raises the
\* error is logged and the loop continues with the next image; otherwise the
\* row of the image joins the pending rows
ProcessImage ==
    /\ rpc = "image"
    /\ img_idx <= Len(imagefiles)
    /\ \E cv \in CalcResults :
          /\ calc_value' = cv
          /\ values' = ValuesAfter(cv, FIELD_NAME_LIST, values)
          /\ IF ReconcileRaises(cv, FIELD_NAME_LIST, values)
             THEN /\ img_failed' = TRUE
                  /\ img_idx' = img_idx + 1
                  /\ UNCHANGED <<bety_traits, bety_rows, rpc>>
             ELSE /\ img_failed' = FALSE
                  /\ bety_traits' =
                        ImageTraits(bety_traits, FIELD_NAME_LIST,
                                    ShapeValues(cv, FIELD_NAME_LIST, values).seq)
                  /\ bety_rows' =
                        IF create_csv_files \/ store_in_betydb
                        THEN Append(bety_rows,
                                CsvLine(GenerateTraitsList(
                                    GetBetyFields(FIELD_NAME_LIST), bety_traits')))
                        ELSE bety_rows
                  /\ rpc' = "outputs"
                  /\ UNCHANGED img_idx
    /\ UNCHANGED <<rconfig, files_done, onefile, imagefiles, polys_built,
                   metadata, sidecar, posted, resp_status, upload_result,
                   exit_kind, exit_at, finished_logged>>
    /\ UNCHANGED <<wvars, bvars, xvars>>

\* (variant: the loop is left only when more than two files were loaded)
BreaksAfterImageOverTwo(num_loaded_files) == num_loaded_files > 2

\* lines 658-661: "if num_loaded_files > 1: break"
BreaksAfterImage(num_loaded_files) == num_loaded_files > 1

\* (variant: a row that write_csv_file did not write ends the run with an
\* error, before the metadata file and the upload)
WriteOutputsAbortsOnFailure ==
    /\ rpc = "outputs"
    /\ IF create_csv_files
       THEN /\ csv' \in WriteRows(csv, GetBetyFields(FIELD_NAME_LIST), bety_rows)
            /\ csvExists' \in (IF csv' # csv THEN {TRUE} ELSE {csvExists, TRUE})
            /\ IF \E i \in DOMAIN bety_rows : bety_rows[i] \notin SeqRange(csv')
               THEN /\ rpc' = "finally"
                    /\ exit_kind' = "raise"
                    /\ exit_at' = "write_csv_file"
                    /\ UNCHANGED <<sidecar, img_idx>>
               ELSE /\ sidecar' \in {sidecar, calc_value}
                    /\ UNCHANGED <<exit_kind, exit_at>>
                    /\ IF BreaksAfterImage(Len(imagefiles))
                       THEN rpc' = "upload" /\ UNCHANGED img_idx
                       ELSE rpc' = "image" /\ img_idx' = img_idx + 1
       ELSE /\ UNCHANGED <<csv, csvExists, sidecar, exit_kind, exit_at>>
            /\ IF BreaksAfterImage(Len(imagefiles))
               THEN rpc' = "upload" /\ UNCHANGED img_idx
               ELSE rpc' = "image" /\ img_idx' = img_idx + 1
    /\ UNCHANGED <<rconfig, files_done, onefile, imagefiles, polys_built,
                   metadata, bety_traits, bety_rows, calc_value, values,
                   img_failed, posted, resp_status, upload_result,
                   finished_logged>>
    /\ UNCHANGED <<wpc, header, data, tries, backoff_secs, csv_file, st_size,
                   wbuf, wrote_file, attempts, opens, sleeps, flushed, wret,
                   ncalls, allOk, allHdr>>
    /\ UNCHANGED <<bvars, xvars>>

\* lines 617-661: the outputs of an image that was processed: every pending
\* row goes to write_csv_file, the metadata file is written (a failure is
\* only logged), and the loop is left when several files were loaded
WriteOutputs ==
    /\ rpc = "outputs"
    /\ IF create_csv_files
       THEN /\ csv' \in WriteRows(csv, GetBetyFields(FIELD_NAME_LIST), bety_rows)
            /\ csvExists' \in (IF csv' # csv THEN {TRUE} ELSE {csvExists, TRUE})
            /\ sidecar' \in {sidecar, calc_value}
       ELSE UNCHANGED <<csv, csvExists, sidecar>>
    /\ IF BreaksAfterImage(Len(imagefiles))
       THEN rpc' = "upload" /\ UNCHANGED img_idx
       ELSE rpc' = "image" /\ img_idx' = img_idx + 1
    /\ UNCHANGED <<rconfig, files_done, onefile, imagefiles, polys_built,
                   metadata, bety_traits, bety_rows, calc_value, values,
                   img_failed, posted, resp_status, upload_result, exit_kind,
                   exit_at, finished_logged>>
    /\ UNCHANGED <<wpc, header, data, tries, backoff_secs, csv_file, st_size,
                   wbuf, wrote_file, attempts, opens, sleeps, flushed, wret,
                   ncalls, allOk, allHdr>>
    /\ UNCHANGED <<bvars, xvars>>

\* lines 663-668: the pending rows are posted in one request when BETYdb is
\* enabled and there are rows; an exception of update_betydb leaves the try
\* block
UploadRows ==
    /\ rpc = "upload"
    /\ IF store_in_betydb /\ bety_rows # <<>>
       THEN \E st \in StatusCodes, body_has_ids \in BOOLEAN :
               /\ posted' = Append(posted,
                                <<GetBetyFields(FIELD_NAME_LIST)>> \o bety_rows)
               /\ resp_status' = st
               /\ upload_result' = UpdateBetydb(st, body_has_ids)
               /\ exit_kind' = IF upload_result' = "raise"
                               THEN "raise" ELSE "return"
               /\ exit_at' = IF upload_result' = "raise"
                             THEN "update_betydb" ELSE "end"
       ELSE /\ exit_kind' = "return"
            /\ exit_at' = "end"
            /\ UNCHANGED <<posted, resp_status, upload_result>>
    /\ rpc' = "finally"
    /\ UNCHANGED <<rconfig, files_done, onefile, imagefiles, polys_built,
                   metadata, bety_traits, bety_rows, img_idx, calc_value,
                   values, img_failed, sidecar, finished_logged>>
    /\ UNCHANGED <<wvars, bvars, xvars>>

\* lines 669-670: the finally clause logs "Finished processing"
FinallyLog ==
    /\ rpc = "finally"
    /\ finished_logged' = TRUE
    /\ rpc' = "exit"
    /\ UNCHANGED <<rconfig, files_done, onefile, imagefiles, polys_built,
                   metadata, bety_traits, bety_rows, img_idx, calc_value,
                   values, img_failed, sidecar, posted, resp_status,
                   upload_result, exit_kind, exit_at>>
    /\ UNCHANGED <<wvars, bvars, xvars>>

\* ------------------------------------------------------------------------
\* Specifications
\* ------------------------------------------------------------------------
\* independent processes appending to one shared file
NextCsv ==
    \E p \in Procs :
        \/ WriteCall(p) /\ UNCHANGED <<bvars, rvars, xvars>>
        \/ WriteCallEmpty(p) /\ UNCHANGED <<bvars, rvars, xvars>>
        \/ OpenOk(p) /\ UNCHANGED <<bvars, rvars, xvars>>
        \/ OpenFailRetry(p, DrawSamples) /\ UNCHANGED <<bvars, rvars, xvars>>
        \/ OpenFailLast(p) /\ UNCHANGED <<bvars, rvars, xvars>>
        \/ StatSize(p) /\ UNCHANGED <<bvars, rvars, xvars>>
        \/ WriteHeader(p) /\ UNCHANGED <<bvars, rvars, xvars>>
        \/ WriteData(p) /\ UNCHANGED <<bvars, rvars, xvars>>
        \/ WriteRaises(p) /\ UNCHANGED <<bvars, rvars, xvars>>
        \/ CloseFile(p) /\ UNCHANGED <<bvars, rvars, xvars>>

InitCsv == WInit /\ BOff /\ ROff /\ IOff /\ MOff

SpecCsv == InitCsv /\ [][NextCsv]_vars

\* calls that do not overlap: a call starts only when no other is running
NoCallRunning == \A q \in Procs : wpc[q] = "idle"

NextSeq ==
    \E p \in Procs :
        \/ NoCallRunning /\ WriteCall(p) /\ UNCHANGED <<bvars, rvars, xvars>>
        \/ NoCallRunning /\ WriteCallEmpty(p) /\ UNCHANGED <<bvars, rvars, xvars>>
        \/ OpenOk(p) /\ UNCHANGED <<bvars, rvars, xvars>>
        \/ OpenFailRetry(p, DrawSamples) /\ UNCHANGED <<bvars, rvars, xvars>>
        \/ OpenFailLast(p) /\ UNCHANGED <<bvars, rvars, xvars>>
        \/ StatSize(p) /\ UNCHANGED <<bvars, rvars, xvars>>
        \/ WriteHeader(p) /\ UNCHANGED <<bvars, rvars, xvars>>
        \/ WriteData(p) /\ UNCHANGED <<bvars, rvars, xvars>>
        \/ WriteRaises(p) /\ UNCHANGED <<bvars, rvars, xvars>>
        \/ CloseFile(p) /\ UNCHANGED <<bvars, rvars, xvars>>

InitSeq == WInit /\ BOff /\ ROff /\ IOff /\ MOff

SpecSeq == InitSeq /\ [][NextSeq]_vars

NextBackoff == BackoffCall \/ BackoffReset

InitBackoff == WOff /\ BInit /\ ROff /\ IOff /\ MOff

SpecBackoff == InitBackoff /\ [][NextBackoff]_vars

\* _get_open_backoff called once with any previous delay, before or after
\* the generator was looked up
InitBackoffAny ==
    /\ WOff /\ ROff /\ IOff /\ MOff
    /\ bprev = NoDelay
    /\ bdraw = 0
    /\ bres = NoDelay
    /\ bcalls = 0
    /\ bndraws = 0
    /\ RANDOM_GENERATOR \in {"None", "0"}

NextBackoffAny == BackoffCallWith

SpecBackoffAny == InitBackoffAny /\ [][NextBackoffAny]_vars

\* init_extraction followed by get_bety_traits_table; no field list is
\* configured before init_extraction has run
InitTraits ==
    /\ WOff /\ BOff
    /\ rpc = "off"
    /\ nfiles = 0
    /\ FIELD_NAME_LIST = <<>>
    /\ store_in_betydb = FALSE
    /\ create_csv_files = FALSE
    /\ RLocals
    /\ ipc = "start"
    /\ ILocals
    /\ MOff

NextTraits == InitExtractionInvalid \/ InitExtraction \/ BuildTraitsTable

SpecTraits == InitTraits /\ [][NextTraits]_vars

\* one call of load_metadata
InitMeta == WOff /\ BOff /\ ROff /\ IOff /\ MInit

NextMeta ==
    \/ MetadataNoFiles
    \/ MetadataNotIterable
    \/ MetadataFile
    \/ MetadataReturn

SpecMeta == InitMeta /\ [][NextMeta]_vars

\* ------------------------------------------------------------------------
\* Properties of write_csv_file and _get_open_backoff
\* ------------------------------------------------------------------------
Min2(a, b) == IF a <= b THEN a ELSE b

HeaderCount(lines) == Cardinality({i \in DOMAIN lines : lines[i] = HeaderLine})

\* the file after k successful calls in a row on a fresh file
ExpectedFile(k) ==
    IF k = 0 THEN <<>> ELSE <<HeaderLine>> \o [i \in 1 .. k |-> DataLine(i)]

CallsFinished == IF NoCallRunning THEN ncalls ELSE ncalls - 1

\* C1: when two or more processes have called write_csv_file on the same
\* initially empty file with the same non-empty header and all of them have
\* returned True, the file holds the header line exactly once, whatever the
\* interleaving of their open, size check, write and close steps was.
C1_HeaderExactlyOnce ==
    (NoCallRunning /\ ncalls >= 2 /\ allOk /\ allHdr) => HeaderCount(csv) = 1

\* C2: after k successful calls that do not overlap, each with a non-empty
\* header, on a file that started nonexistent or empty, the file is the
\* header line followed by the k data lines in call order (so the first call
\* added the header and its data line, every later call its data line only).
C2_HeaderThenDataLines ==
    (allOk /\ allHdr) => csv = ExpectedFile(CallsFinished)

C2_ThreeCallsDone ==
    /\ NoCallRunning /\ ncalls = 3 /\ allOk /\ allHdr
    /\ csv = <<HeaderLine, DataLine(1), DataLine(2), DataLine(3)>>

\* C8: a call of write_csv_file makes at most MAX_CSV_FILE_OPEN_TRIES open
\* attempts and at most one of them succeeds, the successful one being the
\* last; it has slept once for every failed attempt except a failed last
\* (10th) one; and when every attempt failed it returned False, did not
\* raise, and added nothing to the file.
C8_BoundedOpenRetries ==
    \A p \in Procs :
        /\ attempts[p] <= MAX_CSV_FILE_OPEN_TRIES
        /\ opens[p] <= 1
        /\ sleeps[p] = Min2(attempts[p] - opens[p], MAX_CSV_FILE_OPEN_TRIES - 1)
        /\ wpc[p] = "open" => opens[p] = 0 /\ flushed[p] = 0
        /\ (wpc[p] = "idle" /\ wret[p] # "none" /\ wret[p] # "raise"
               /\ opens[p] = 0) =>
              /\ attempts[p] = MAX_CSV_FILE_OPEN_TRIES
              /\ wret[p] = "False"
              /\ flushed[p] = 0

C8_AllAttemptsFailed ==
    \E p \in Procs :
        /\ wpc[p] = "idle" /\ wret[p] = "False" /\ opens[p] = 0
        /\ attempts[p] = MAX_CSV_FILE_OPEN_TRIES
        /\ sleeps[p] = MAX_CSV_FILE_OPEN_TRIES - 1

\* C9 as stated: _get_open_backoff(None) is 1 second, and for a previous
\* delay d > 0 of the retry loop the result lies in [0, 9.9] seconds.
C9_ResultAtMostNinePointNine ==
    bcalls > 0 =>
        /\ bprev = NoDelay => bres = 10
        /\ bprev > 0 => (0 <= bres /\ bres <= 99)

\* C9 (amended): _get_open_backoff(None) is 1 second, and for a previous
\* delay d > 0 of the retry loop and any draw the result lies in
\* [0, MAX_FILE_OPEN_SLEEP_SEC] = [0, 30] seconds.
C9_ResultAtMostCeiling ==
    bcalls > 0 =>
        /\ bprev = NoDelay => bres = 10
        /\ bprev > 0 => (0 <= bres /\ bres <= MaxSleepTenths)

C9_CeilingReached ==
    bcalls >= 2 /\ bprev > 0 /\ bres = MaxSleepTenths

\* C14: a call of _get_open_backoff with a previous delay p >= 0 takes one
\* draw u, and its result r is a function of p and u: r is p*u*100
\* truncated, over 10, when that is at most MAX_FILE_OPEN_SLEEP_SEC, and
\* otherwise r is max(0.1, trunc(u*100)/10) for the same u, which is not the
\* ceiling.  (In tenths and hundredths: 10*r <= p*u < 10*r + 10.)
C14_ResultDeterminedByDraw ==
    (bcalls > 0 /\ bprev >= 0) =>
        /\ bndraws = 1
        /\ IF bprev * bdraw < 10 * (10 * MAX_FILE_OPEN_SLEEP_SEC + 1)
           THEN /\ 10 * bres <= bprev * bdraw
                /\ bprev * bdraw < 10 * bres + 10
           ELSE /\ bres = (IF bdraw < 1 THEN 1 ELSE bdraw)
                /\ bres # 10 * MAX_FILE_OPEN_SLEEP_SEC

C14_OverflowRedrawn ==
    bcalls = 1 /\ bprev = MaxPrev /\ bdraw = 99 /\ bres = 99 /\ bndraws = 1

\* C17: in one retry loop, where each call of _get_open_backoff gets the
\* result of the call before, a result of 0 comes from any draw u with
\* trunc(p*u*100) = 0 (u < 0.01 after the first delay of 1 second), and once
\* the result is 0 the next call of the loop returns 0 again whatever its
\* draw is: every later delay of the loop is 0.
C17_ZeroDelayAbsorbing ==
    [][bcalls' = bcalls + 1 =>
          /\ (bres > 0 /\ bres * bdraw' < 10) => bres' = 0
          /\ (bres = 10 /\ bprev = NoDelay /\ bdraw' < 1) => bres' = 0
          /\ bres = 0 => (bprev' = 0 /\ bres' = 0)]_vars

C17_ZeroKeptWithLargestDraw ==
    bcalls = 4 /\ bprev = 0 /\ bres = 0 /\ bdraw = 99

\* ------------------------------------------------------------------------
\* Properties of process_files, load_image_files and update_betydb
\* ------------------------------------------------------------------------
\* calc_value, values and img_failed are those of the image that went
\* through the inner try block last
\* the values of the configured variable fields in the traits table
FieldValuesAre(vals) ==
    \A i \in DOMAIN FIELD_NAME_LIST :
        bety_traits[FIELD_NAME_LIST[i]] = PyStr(ToString(vals[i]))

\* the cells of the variable fields in the last pending row
LastRowValuesAre(vals) ==
    bety_rows # <<>> =>
        \A i \in DOMAIN FIELD_NAME_LIST :
            bety_rows[Len(bety_rows)][Len(BetyFixedFields) + i] = ToString(vals[i])

\* C3: an image whose result is a list or tuple of as many elements as there
\* are configured variable fields is reconciled successfully, and its i-th
\* element is the value of the i-th variable field of the row.
C3_SequenceAccepted ==
    (calc_value.kind \in {"list", "tuple"}
        /\ Len(calc_value.elems) = Len(FIELD_NAME_LIST)) =>
            /\ ~img_failed
            /\ FieldValuesAre(calc_value.elems)
            /\ LastRowValuesAre(calc_value.elems)

\* the configured fields that are keys of the mapping, in configured order
FieldsInMap(map) == SelectSeq(FIELD_NAME_LIST, LAMBDA f : f \in DOMAIN map)

\* the number of values the result of calculate yields
ValueCount(cv) ==
    IF cv.kind = "dict" THEN Len(FieldsInMap(cv.map)) ELSE Len(cv.elems)

\* the failures of the compute/reconcile step C4 names
StepFails(cv) ==
    \/ cv.kind \in {"raise", "set"}
    \/ ValueCount(cv) # Len(FIELD_NAME_LIST)

\* C4: when the compute/reconcile step of an image fails (the algorithm
\* raises, returns a set, or yields a number of values different from the
\* number of configured variable fields), the pending rows, the CSV file and
\* the sidecar are left as they were, process_files keeps running, and the
\* loop is at the next loaded image.
C4_FailedImageSkipped ==
    [][(rpc = "image" /\ img_idx <= Len(imagefiles) /\ StepFails(calc_value'))
          => /\ bety_rows' = bety_rows
             /\ csv' = csv /\ csvExists' = csvExists
             /\ sidecar' = sidecar
             /\ posted' = posted
             /\ exit_kind' = "running"
             /\ rpc' = "image" /\ img_idx' = img_idx + 1]_vars

C4_SecondImageAfterFailure ==
    rpc = "outputs" /\ img_idx = 2 /\ ~img_failed /\ Len(bety_rows) = 1

\* C5: for a mapping result the reconciled values are the mapping's values
\* of the configured variable fields that are keys of the mapping, in
\* configured order (other keys ignored, missing fields dropped); the image
\* is accepted exactly when every configured field is a key, and then the
\* row holds the mapping's value of each configured field.
C5_MappingReconciled ==
    calc_value.kind = "dict" =>
        /\ values = Bound([i \in DOMAIN FieldsInMap(calc_value.map) |->
                              calc_value.map[FieldsInMap(calc_value.map)[i]]])
        /\ ~img_failed <=>
              \A i \in DOMAIN FIELD_NAME_LIST :
                  FIELD_NAME_LIST[i] \in DOMAIN calc_value.map
        /\ ~img_failed =>
              /\ FieldValuesAre([i \in DOMAIN FIELD_NAME_LIST |->
                                    calc_value.map[FIELD_NAME_LIST[i]]])
              /\ LastRowValuesAre([i \in DOMAIN FIELD_NAME_LIST |->
                                      calc_value.map[FIELD_NAME_LIST[i]]])

C5_MappingWithExtraKeyAccepted ==
    /\ calc_value.kind = "dict" /\ ~img_failed /\ rpc = "outputs"
    /\ Len(FIELD_NAME_LIST) = 2
    /\ "other" \in DOMAIN calc_value.map
    /\ calc_value.map["f1"] = 8
    /\ Len(bety_rows) = 1

\* C6: update_betydb returns the ids only for status 200 or 201, and for
\* every other status it raises: it never returns normally.
C6_OtherStatusRaises ==
    resp_status # 0 =>
        /\ upload_result = "ids" => resp_status \in {200, 201}
        /\ resp_status \notin {200, 201} =>
              upload_result = "raise" /\ exit_kind = "raise"

\* C7: process_files has logged "Finished processing" when it exits, however
\* it ends.
C7_FinishedAlwaysLogged == rpc = "exit" => finished_logged

\* C10: a file whose bounds are NaN is not in the map of load_image_files,
\* no polygon is built for it and no error is raised on its account, with
\* or without an EPSG code.
C10_NoBoundsFileDiscarded ==
    (files_done > 0 /\ onefile.bounds[1] = NaN) =>
        /\ \A i \in DOMAIN imagefiles : imagefiles[i].file # files_done
        /\ exit_at # "load_image_files"

\* C11: in a run of process_files update_betydb is called at most once;
\* the call is made after the image loop, so no line is added to the CSV
\* file once the payload is posted; the payload is the header followed by
\* every pending row; and when the response is an error status (4xx, 5xx:
\* 500 for one) process_files ends by raising from update_betydb, the CSV
\* file being as it was before the call.
C11_UploadOnceAfterCsv ==
    [][/\ Len(posted') <= 1
       /\ posted' # posted =>
             /\ rpc = "upload"
             /\ posted' = <<(<<GetBetyFields(FIELD_NAME_LIST)>> \o bety_rows)>>
             /\ bety_rows # <<>>
             /\ csv' = csv /\ csvExists' = csvExists
       /\ posted # <<>> =>
             /\ csv' = csv /\ csvExists' = csvExists
             /\ bety_rows' = bety_rows
       /\ resp_status' >= 400 =>
             /\ upload_result' = "raise"
             /\ exit_kind' = "raise" /\ exit_at' = "update_betydb"]_vars

C11_UploadFailedCsvKept ==
    /\ rpc = "exit" /\ resp_status = 500 /\ exit_kind = "raise"
    /\ Len(posted) = 1 /\ Len(posted[1]) = 2
    /\ Len(csv) = 2 /\ csv[2] = bety_rows[1]

\* C12: once init_extraction has run, the table of get_bety_traits_table
\* maps "site" to the empty list and every other field to a string: "site"
\* is the one field whose default is the empty list.
C12_SiteAloneDefaultsToList ==
    ipc = "built" =>
        /\ traits_table["site"] = PyEmptyList
        /\ \A f \in DOMAIN traits_table \ {"site"} :
              traits_table[f].type = "str"

\* the files of the list that were read and parsed
ParsedFiles == {i \in DOMAIN md_files : md_files[i].kind \in {"object", "other"}}

\* the parsed files that define the top-level key k
FilesDefining(k) ==
    {i \in ParsedFiles : k \in DOMAIN md_files[i].map}

\* the largest element of a non-empty set of positions
LastOf(S) == CHOOSE i \in S : \A j \in S : j <= i

\* C13: load_metadata called with a list of files does not raise; when it
\* has returned it has gone through the whole list, the files that could
\* not be read or parsed have added nothing (each one was logged and
\* skipped), and the returned dict has exactly the top-level keys some
\* parsed file defines, each with the value of the last such file in the
\* order of the list.
C13_LastParsedFileWins ==
    md_arg = "list" =>
        /\ mpc # "raised"
        /\ mpc = "returned" =>
              /\ md_idx = Len(md_files)
              /\ md_warnings =
                    Cardinality({i \in DOMAIN md_files :
                                    md_files[i].kind # "object"})
              /\ DOMAIN new_metadata =
                    {k \in MetaKeys : FilesDefining(k) # {}}
              /\ \A k \in DOMAIN new_metadata :
                    new_metadata[k] = md_files[LastOf(FilesDefining(k))].map[k]

C13_CorruptFileSkippedLaterFileWins ==
    /\ mpc = "returned" /\ Len(md_files) = 3
    /\ md_files[1] = MetaFile("object", [k \in {"k1", "k2"} |-> 1])
    /\ md_files[2] = MetaFile("object", [k \in {"k1"} |-> 2])
    /\ md_files[3].kind = "corrupt"
    /\ new_metadata = [k \in {"k1", "k2"} |-> IF k = "k1" THEN 2 ELSE 1]

\* the CSV step of the run is over and write_csv_file did not write some
\* pending row (no open succeeded, or a write raised)
RowNotWritten ==
    /\ create_csv_files
    /\ bety_rows # <<>>
    /\ rpc \in {"image", "upload", "finally", "exit"}
    /\ \E i \in DOMAIN bety_rows : bety_rows[i] \notin SeqRange(csv)

\* C15: when write_csv_file has failed for a row, process_files is not
\* ended by that failure (it can only end by raising from update_betydb),
\* it runs to its end, the row stays among the pending rows, and with
\* BETYdb enabled the run posts the header followed by the pending rows,
\* that row included.
C15_FailedWriteNotFatal ==
    RowNotWritten =>
        /\ exit_kind = "raise" => exit_at = "update_betydb"
        /\ rpc = "exit" =>
              /\ finished_logged
              /\ exit_at \in {"end", "update_betydb"}
              /\ store_in_betydb =>
                    posted = <<(<<GetBetyFields(FIELD_NAME_LIST)>> \o bety_rows)>>

C15_UnwrittenRowUploaded ==
    /\ RowNotWritten /\ rpc = "exit" /\ store_in_betydb
    /\ csv = <<>>
    /\ sidecar = calc_value /\ sidecar # NoCalc
    /\ Len(posted) = 1 /\ posted[1][2] = bety_rows[1]
    /\ upload_result = "ids" /\ exit_kind = "return"

\* the lines of the CSV file that are not the header line
DataLineCount(lines) ==
    Cardinality({i \in DOMAIN lines :
                    lines[i] # GetBetyFields(FIELD_NAME_LIST)})

\* C16: in a run of process_files at most one image is processed
\* successfully: a step that processes an image finds no pending row and, on
\* success, takes the image at the current position of the loop, positions
\* only going up; so there is never more than one pending row, the CSV file
\* gets at most one data line, and a posted payload holds at most one row
\* after its header.
C16_AtMostOneImageProcessed ==
    [][/\ img_idx' >= img_idx
       /\ Len(bety_rows') <= 1
       /\ DataLineCount(csv') <= 1
       /\ \A i \in DOMAIN posted' : Len(posted'[i]) <= 2
       /\ rpc' = "outputs" =>
             /\ rpc = "image" /\ bety_rows = <<>> /\ sidecar = NoCalc
             /\ csv = <<>>
             /\ img_idx' = img_idx /\ img_idx <= Len(imagefiles)
       /\ (rpc = "outputs" /\ Len(imagefiles) > 1) => rpc' = "upload"]_vars

C16_FirstFailedSecondProcessed ==
    /\ rpc = "exit" /\ Len(imagefiles) = 2 /\ img_idx = 2
    /\ create_csv_files /\ store_in_betydb
    /\ Len(bety_rows) = 1 /\ DataLineCount(csv) = 1
    /\ Len(posted) = 1 /\ Len(posted[1]) = 2

\* ------------------------------------------------------------------------
\* One run of process_files; the CSV file of the run starts nonexistent or
\* empty and no other process writes to it
\* ------------------------------------------------------------------------
Init ==
    /\ csvExists \in BOOLEAN
    /\ csv = <<>>
    /\ WLocals("off")
    /\ BOff
    /\ RInit
    /\ IOff
    /\ MOff

Next ==
    \/ LoadImageFile
    \/ ImagesLoaded
    \/ LoadMetadata
    \/ ProcessImage
    \/ ImagesDone
    \/ WriteOutputs
    \/ UploadRows
    \/ FinallyLog

Spec == Init /\ [][Next]_vars

====
